---- MODULE Spec2Model ----
(***************************************************************************)
(* Model of pkg/querier/queryrange/downstreamer.go: the bounded fan-out    *)
(* dispatcher (DownstreamHandler.Downstreamer, instance.For,               *)
(* instance.Downstream).                                                   *)
(*                                                                         *)
(* One dispatcher instance is built by Downstreamer; For is called on it   *)
(* up to NumCalls times, sequentially or concurrently.  Every For call has *)
(* a supervisor goroutine, one worker goroutine per dispatched index and   *)
(* the collector loop of the calling goroutine.                            *)
(*                                                                         *)
(* Channels: in.locks is a buffered channel of content-free tokens, so it  *)
(* is modelled by the number of tokens it holds.  ch is unbuffered, so a   *)
(* send and a receive happen in one joint step of a worker standing at its *)
(* select and the collector standing at its select.  A select statement    *)
(* with several ready cases takes any one of them.  A cancellation by the  *)
(* caller reaches the ctx For derived in a step of its own.                *)
(***************************************************************************)
EXTENDS Integers, Naturals, Sequences, FiniteSets, TLC

\* ---------------------------------------------------------------- bounds
NumCalls == 2          \* For calls made on the one instance
MaxN     == 2          \* largest len(queries) of a call
MaxTotal == 2          \* largest number of sub-queries over all calls
MaxLimit == 1          \* largest value the limits provider returns
MaxStreams == 2        \* most streams a response carries
MaxSamples == 2        \* most samples a sample stream carries
MaxTime    == 1        \* latest timestamp of a query
MaxHalfMs  == 3        \* longest step and interval, in half milliseconds
MaxShards  == 1        \* most shards of a shard set

\* ------------------------------------------------------ program constants
DefaultDownstreamConcurrency == 128

\* ------------------------------------------------------------ value sets
Calls       == 1..NumCalls
Idx         == 0..(MaxN - 1)
LimitValues == (-1)..MaxLimit
ResultOf(i) == <<"res", i>>      \* the logqlmodel.Result fn returns for queries[i]
ErrOf(i)    == <<"err", i>>      \* the error fn returns for queries[i] when it fails
Values      == {ResultOf(i) : i \in Idx}
Errs        == {ErrOf(i) : i \in Idx}
Canceled    == <<"context canceled">>
NoErr       == <<"nil">>
NoOut       == <<"none">>        \* fn has not returned yet
Zero        == <<"zero">>        \* logqlmodel.Result{} in a fresh results slot
Nil         == [i \in {-1} |-> "nil"]   \* the nil []logqlmodel.Result

VARIABLES
  tenantOK,     \* tenant.TenantID(ctx) returns err == nil
  limitX,       \* what h.limits.MaxQueryParallelism returns (0 when the
                \* tenant is not resolved: the limits are then not asked)
  built,        \* Downstreamer has returned the instance
  parallelism,  \* instance.parallelism
  locks,        \* number of tokens in the channel instance.locks
  callState,    \* per call: "idle", "running" (collector loop), "returned"
  nq,           \* per call: len(queries)
  callerDone,   \* per call: the ctx passed to For/Downstream is cancelled
  ctxDone,      \* per call: the ctx derived at line 121 is cancelled
  supI,         \* per call: the supervisor's loop variable i
  wk,           \* per call, index: "none","fn","select","defer","done"
  out,          \* per call, index: what fn returned (a value or an error)
  pub,          \* per call, index: "none", "sent" or "skipped" at the select
  invoked,      \* per call, index: how many times fn was invoked
  k,            \* per call: the collector's loop variable i
  results,      \* per call: the results slice
  ret,          \* per call: what For returned, [list, err]
  resp,         \* the queryrangebase.Response given to ResponseToResult
  result,       \* what ResponseToResult returned for resp
  params,       \* the logql.Params given to ParamsToLokiRequest
  shards,       \* the logql.Shards given to ParamsToLokiRequest
  req           \* what ParamsToLokiRequest returned for params, shards

instVars == <<tenantOK, limitX, built, parallelism, locks>>
callVars == <<callState, nq, callerDone, ctxDone, supI, k, results, ret>>
wkVars   == <<wk, out, pub, invoked>>
trVars   == <<resp, result, params, shards, req>>
vars     == <<instVars, callVars, wkVars, trVars>>

\* ------------------------------------------------------------- helpers
\* The worker states in which the goroutine still owns the token the
\* supervisor took for it: the deferred release (lines 134-136) runs last.
Holding == {"fn", "select", "defer"}

\* an override that is only taken when it raises the default
ResolveParallelismAboveDefault(ok, x) ==
  IF ok /\ x > DefaultDownstreamConcurrency THEN x ELSE DefaultDownstreamConcurrency

\* line 64-72: the default, overridden by a positive per-tenant limit
ResolveParallelism(ok, x) ==
  IF ok /\ x > 0 THEN x ELSE DefaultDownstreamConcurrency

\* a pool filled with one token too many
PoolFillOneMore(p) == p + 1

\* lines 74-77: make(chan struct{}, p) filled with p tokens
PoolFill(p) == p

\* line 131: <-in.locks can proceed
CanAcquire(l) == l > 0

\* line 131: one token taken out of in.locks
Acquire(l) == l - 1

\* a worker that puts its token back twice
ReleaseTwice(l) == l + 2

\* a worker that does not put its token back
ReleaseForgotten(l) == l

\* lines 134-136: in.locks <- struct{}{}
Release(l) == l + 1

\* a supervisor loop that runs once more than there are queries
SupervisorInLoopInclusive(i, n) == i <= n

\* line 127: i < len(queries) of the supervisor loop
SupervisorInLoop(i, n) == i < n

\* a supervisor loop that does not advance
NextIndexStuck(i) == i

\* line 127: i++ of the supervisor loop
NextIndex(i) == i + 1

\* a collector that does not look at resp.err
RespIsErrIgnored(o) == FALSE

\* line 161: resp.err != nil
RespIsErr(o) == o \in Errs

\* a collector that stores in arrival order: results[i] = resp.res
CollectStoreByArrival(rs, respI, j, v) == [rs EXCEPT ![j] = v]

\* line 164: results[resp.i] = resp.res  (j is the collector's own loop index)
CollectStore(rs, respI, j, v) == [rs EXCEPT ![respI] = v]

\* a collector that answers a failed response with ctx.Err()
ErrReturnCtxErr(e) == [list |-> Nil, err |-> Canceled]

\* line 162: return nil, resp.err
ErrReturn(e) == [list |-> Nil, err |-> e]

\* a collector that hands back what it has collected along with ctx.Err()
CancelReturnPartial(rs) == [list |-> rs, err |-> Canceled]

\* line 159: return nil, ctx.Err()
CancelReturn(rs) == [list |-> Nil, err |-> Canceled]

\* a For without the deferred cancel()
DeferCancelMissing(d, c) == d

\* line 122: defer cancel() cancels the derived ctx when For returns
DeferCancel(d, c) == [d EXCEPT ![c] = TRUE]

\* a worker whose select has no <-ctx.Done() case
WorkerSeesDoneNever(c) == FALSE

\* line 147: the worker's case <-ctx.Done() can proceed
WorkerSeesDone(c) == ctxDone[c]

\* a collector whose select has no <-ctx.Done() case
CollectorSeesDoneNever(c) == FALSE

\* line 158: the collector's case <-ctx.Done() can proceed
CollectorSeesDone(c) == ctxDone[c]

\* lines 93-101: the closure Downstream passes to For uses the ctx parameter of
\* Downstream, not the ctx For derives at line 121 (that one is local to For).
HandlerCtx == "caller"

HandlerCtxDone(c) == IF HandlerCtx = "caller" THEN callerDone[c] ELSE ctxDone[c]

\* the collector stands at its select (lines 156-157)
CollectorAtSelect(c) == callState[c] = "running" /\ k[c] < nq[c]

\* number of sub-queries handed to For so far, over all calls
RECURSIVE SumNq(_)
SumNq(c) == IF c = 0 THEN 0 ELSE nq[c] + SumNq(c - 1)

\* --------------------------------------------------------------- Init
\* the translators have not been called
NoCall  == [kind |-> "none"]
Pending == [kind |-> "pending"]

\* no response and no parameters are being translated
InitTranslators ==
  /\ resp = NoCall /\ result = NoCall
  /\ params = NoCall /\ shards = <<>> /\ req = NoCall

\* nothing is built and For has not been called
InitInstance ==
  /\ built = FALSE
  /\ parallelism = 0
  /\ locks = 0
  /\ callState = [c \in Calls |-> "idle"]
  /\ nq = [c \in Calls |-> 0]
  /\ callerDone = [c \in Calls |-> FALSE]
  /\ ctxDone = [c \in Calls |-> FALSE]
  /\ supI = [c \in Calls |-> 0]
  /\ k = [c \in Calls |-> 0]
  /\ results = [c \in Calls |-> Nil]
  /\ ret = [c \in Calls |-> [list |-> Nil, err |-> NoErr]]
  /\ wk = [c \in Calls |-> [i \in Idx |-> "none"]]
  /\ out = [c \in Calls |-> [i \in Idx |-> NoOut]]
  /\ pub = [c \in Calls |-> [i \in Idx |-> "none"]]
  /\ invoked = [c \in Calls |-> [i \in Idx |-> 0]]

\* every outcome of tenant.TenantID and of MaxQueryParallelism
Init ==
  /\ tenantOK \in BOOLEAN
  /\ limitX \in IF tenantOK THEN LimitValues ELSE {0}
  /\ InitInstance
  /\ InitTranslators

\* one environment for every value parallelism can take: a positive override,
\* or no tenant (the default)
InitPerParallelism ==
  /\ tenantOK \in BOOLEAN
  /\ limitX \in IF tenantOK THEN 1..MaxLimit ELSE {0}
  /\ InitInstance
  /\ InitTranslators

\* ------------------------------------------------------------- actions
\* DownstreamHandler.Downstreamer (lines 63-83)
Downstreamer ==
  /\ ~built
  /\ built' = TRUE
  /\ parallelism' = ResolveParallelism(tenantOK, limitX)
  /\ locks' = PoolFill(ResolveParallelism(tenantOK, limitX))
  /\ UNCHANGED <<tenantOK, limitX, callVars, wkVars>>
  /\ UNCHANGED trVars

\* instance.For entry (lines 110-126, 155): derive the cancellable ctx, make
\* ch, start the supervisor goroutine, allocate results.  Calls are numbered in
\* the order they are made.  With no queries neither loop is entered (lines
\* 127, 156): For returns (results, nil) at once (line 167) and the deferred
\* cancel() runs (line 122).
ForCall(c, n) ==
  /\ built
  /\ callState[c] = "idle"
  /\ IF c = 1 THEN TRUE ELSE callState[c - 1] # "idle"
  /\ SumNq(NumCalls) + n <= MaxTotal
  /\ nq' = [nq EXCEPT ![c] = n]
  /\ results' = [results EXCEPT ![c] = [i \in 0..(n - 1) |-> Zero]]
  /\ IF n = 0
       THEN /\ callState' = [callState EXCEPT ![c] = "returned"]
            /\ ret' = [ret EXCEPT ![c] = [list |-> results'[c], err |-> NoErr]]
            /\ ctxDone' = DeferCancel(ctxDone, c)
       ELSE /\ callState' = [callState EXCEPT ![c] = "running"]
            /\ UNCHANGED <<ret, ctxDone>>
  /\ UNCHANGED <<instVars, callerDone, supI, k, wkVars>>
  /\ UNCHANGED trVars

\* The caller of For cancels the ctx it passed in, while For still has results
\* to collect (a later cancellation changes nothing For does).
CallerCancel(c) ==
  /\ CollectorAtSelect(c)
  /\ ~callerDone[c]
  /\ callerDone' = [callerDone EXCEPT ![c] = TRUE]
  /\ UNCHANGED <<instVars, callState, nq, ctxDone, supI, k, results, ret, wkVars>>
  /\ UNCHANGED trVars

\* context.WithCancel (line 121): the derived ctx is cancelled when the parent is.
PropagateCancel(c) ==
  /\ callState[c] # "idle"
  /\ callerDone[c]
  /\ ~ctxDone[c]
  /\ ctxDone' = [ctxDone EXCEPT ![c] = TRUE]
  /\ UNCHANGED <<instVars, callState, nq, callerDone, supI, k, results, ret, wkVars>>
  /\ UNCHANGED trVars

\* Supervisor, select case <-in.locks (lines 131-150): take a token and start
\* the worker goroutine for index i, which calls fn(queries[i]).
SupervisorAcquire(c) ==
  /\ callState[c] # "idle"
  /\ SupervisorInLoop(supI[c], nq[c])
  /\ CanAcquire(locks)
  /\ locks' = Acquire(locks)
  /\ wk' = [wk EXCEPT ![c][supI[c]] = "fn"]
  /\ invoked' = [invoked EXCEPT ![c][supI[c]] = @ + 1]
  /\ supI' = [supI EXCEPT ![c] = NextIndex(@)]
  /\ UNCHANGED <<tenantOK, limitX, built, parallelism, callState, nq,
                 callerDone, ctxDone, k, results, ret, out, pub>>
  /\ UNCHANGED trVars

\* Supervisor, select case <-ctx.Done() (lines 129-130): break leaves the
\* select statement only; the for loop goes on with the next index.
SupervisorDone(c) ==
  /\ callState[c] # "idle"
  /\ SupervisorInLoop(supI[c], nq[c])
  /\ ctxDone[c]
  /\ supI' = [supI EXCEPT ![c] = NextIndex(@)]
  /\ UNCHANGED <<instVars, callState, nq, callerDone, ctxDone, k, results, ret, wkVars>>
  /\ UNCHANGED trVars

\* Worker: fn(queries[i]) returns (line 138) with a value or an error.
WorkerFn(c, i, o) ==
  /\ wk[c][i] = "fn"
  /\ wk' = [wk EXCEPT ![c][i] = "select"]
  /\ out' = [out EXCEPT ![c][i] = o]
  /\ UNCHANGED <<instVars, callVars, pub, invoked>>
  /\ UNCHANGED trVars

\* Worker select case ch <- response (line 148) together with the collector's
\* case resp := <-ch (lines 160-164).  An error ends For with (nil, resp.err);
\* the last of len(queries) results ends the loop and For with (results, nil)
\* (lines 156, 167).  The deferred cancel() runs when For returns (line 122).
WorkerPublish(c, i) ==
  /\ wk[c][i] = "select"
  /\ CollectorAtSelect(c)
  /\ wk' = [wk EXCEPT ![c][i] = "defer"]
  /\ pub' = [pub EXCEPT ![c][i] = "sent"]
  /\ IF RespIsErr(out[c][i])
       THEN /\ ret' = [ret EXCEPT ![c] = ErrReturn(out[c][i])]
            /\ callState' = [callState EXCEPT ![c] = "returned"]
            /\ ctxDone' = DeferCancel(ctxDone, c)
            /\ UNCHANGED <<k, results>>
       ELSE /\ results' = [results EXCEPT ![c] = CollectStore(@, i, k[c], out[c][i])]
            /\ k' = [k EXCEPT ![c] = @ + 1]
            /\ IF k[c] + 1 = nq[c]
                 THEN /\ ret' = [ret EXCEPT ![c] = [list |-> results'[c], err |-> NoErr]]
                      /\ callState' = [callState EXCEPT ![c] = "returned"]
                      /\ ctxDone' = DeferCancel(ctxDone, c)
                 ELSE UNCHANGED <<ret, callState, ctxDone>>
  /\ UNCHANGED <<instVars, nq, callerDone, supI, out, invoked>>
  /\ UNCHANGED trVars

\* Worker select case <-ctx.Done() (line 147): the response is dropped.
WorkerSkip(c, i) ==
  /\ wk[c][i] = "select"
  /\ WorkerSeesDone(c)
  /\ wk' = [wk EXCEPT ![c][i] = "defer"]
  /\ pub' = [pub EXCEPT ![c][i] = "skipped"]
  /\ UNCHANGED <<instVars, callVars, out, invoked>>
  /\ UNCHANGED trVars

\* Worker: the deferred function puts the token back (lines 134-136).
WorkerRelease(c, i) ==
  /\ wk[c][i] = "defer"
  /\ wk' = [wk EXCEPT ![c][i] = "done"]
  /\ locks' = Release(locks)
  /\ UNCHANGED <<tenantOK, limitX, built, parallelism, callVars, out, pub, invoked>>
  /\ UNCHANGED trVars

\* Collector select case <-ctx.Done() (lines 158-159): return nil, ctx.Err()
CollectorDone(c) ==
  /\ CollectorAtSelect(c)
  /\ CollectorSeesDone(c)
  /\ ret' = [ret EXCEPT ![c] = CancelReturn(results[c])]
  /\ callState' = [callState EXCEPT ![c] = "returned"]
  /\ ctxDone' = DeferCancel(ctxDone, c)
  /\ UNCHANGED <<instVars, nq, callerDone, supI, k, results, wkVars>>
  /\ UNCHANGED trVars

Next ==
  \/ Downstreamer
  \/ \E c \in Calls, n \in 0..MaxN : ForCall(c, n)
  \/ \E c \in Calls : CallerCancel(c)
  \/ \E c \in Calls : PropagateCancel(c)
  \/ \E c \in Calls : SupervisorAcquire(c)
  \/ \E c \in Calls : SupervisorDone(c)
  \/ \E c \in Calls, i \in Idx : \E o \in {ResultOf(i), ErrOf(i)} : WorkerFn(c, i, o)
  \/ \E c \in Calls, i \in Idx : WorkerPublish(c, i)
  \/ \E c \in Calls, i \in Idx : WorkerSkip(c, i)
  \/ \E c \in Calls, i \in Idx : WorkerRelease(c, i)
  \/ \E c \in Calls : CollectorDone(c)

Spec == Init /\ [][Next]_vars

\* ---------------------------------------------------------- scheduling
\* The goroutines of a call: each keeps taking steps while it can take one.
Supervisor(c) == SupervisorAcquire(c) \/ SupervisorDone(c)

Worker(c, i) ==
  \/ \E o \in {ResultOf(i), ErrOf(i)} : WorkerFn(c, i, o)
  \/ WorkerPublish(c, i)
  \/ WorkerSkip(c, i)
  \/ WorkerRelease(c, i)

Collector(c) ==
  \/ CollectorDone(c)
  \/ \E i \in Idx : WorkerPublish(c, i)

\* a step of any goroutine of any call
GoroutineStep ==
  \E c \in Calls :
    \/ Supervisor(c)
    \/ Collector(c)
    \/ PropagateCancel(c)
    \/ \E i \in Idx : Worker(c, i)

\* The Go scheduler runs a goroutine that can take a step.  Every goroutine of
\* the dispatcher takes finitely many steps, so this is all the fairness the
\* liveness properties need.
Fairness == WF_vars(GoroutineStep)

\* The dispatcher depends on the environment only through parallelism, so the
\* liveness properties are checked from one environment per value of it.
FairSpec == InitPerParallelism /\ [][Next]_vars /\ Fairness

\* ------------------------------------------------------------- claims
Returned(c)  == callState[c] = "returned"
Succeeded(c) == Returned(c) /\ ret[c].err = NoErr
IdxOf(c)     == 0..(nq[c] - 1)

\* the worker goroutines that own a token / that are inside fn
Holders   == {ci \in Calls \X Idx : wk[ci[1]][ci[2]] \in Holding}
Executing == {ci \in Calls \X Idx : wk[ci[1]][ci[2]] = "fn"}

\* C1: at most parallelism invocations of fn run at any time, over all the For
\* calls made on the instance.
C1_BoundedConcurrency == Cardinality(Executing) <= parallelism

\* two For calls run at once on an instance with one token: one call's worker
\* is inside fn, the other call's supervisor waits for the token
C1_Witness ==
  /\ parallelism = 1 /\ locks = 0
  /\ Cardinality(Executing) = 1
  /\ \A c \in Calls : callState[c] = "running"
  /\ \E c \in Calls : supI[c] < nq[c]

\* C2: a result list returned by For has len(queries) entries and entry i is
\* what fn returned for queries[i], which was collected once.
C2_OrderPreserved ==
  \A c \in Calls :
    (Returned(c) /\ ret[c].list # Nil) =>
      /\ DOMAIN ret[c].list = IdxOf(c)
      /\ k[c] = nq[c]
      /\ \A i \in IdxOf(c) :
           /\ ret[c].list[i] = out[c][i]
           /\ out[c][i] = ResultOf(i)
           /\ pub[c][i] = "sent"
           /\ invoked[c][i] = 1

\* For returned two results; the worker of index 0 published last (it has not
\* released its token yet, the worker of index 1 has)
C2_Witness ==
  \E c \in Calls :
    /\ Succeeded(c) /\ nq[c] = 2
    /\ wk[c][0] = "defer" /\ wk[c][1] = "done"

\* C3: if fn failed for some sub-query of a call, For returns an error and the
\* nil list, never a result list.
C3_NoPartialResults ==
  \A c \in Calls :
    (Returned(c) /\ \E i \in Idx : out[c][i] \in Errs) =>
      /\ ret[c].list = Nil
      /\ ret[c].err # NoErr

\* For returned a worker's error after it had collected a successful result
C3_Witness ==
  \E c \in Calls :
    /\ Returned(c) /\ ret[c].err \in Errs /\ ret[c].list = Nil
    /\ k[c] >= 1
    /\ \E i \in IdxOf(c) : results[c][i] \in Values

\* C4: once the derived ctx of a call is cancelled, its supervisor takes no
\* token and starts no worker.
C4_NoDispatchAfterCancel ==
  [][\A c \in Calls :
       ctxDone[c] =>
         /\ \A i \in Idx : invoked'[c][i] = invoked[c][i]
         /\ \A i \in Idx : wk[c][i] = "none" => wk'[c][i] = "none"]_vars

\* C5: tokens in the pool plus tokens owned by workers are parallelism, so the
\* pool never holds more than its capacity and a release finds room.
C5_TokensConserved ==
  /\ locks + Cardinality(Holders) = parallelism
  /\ locks >= 0
  /\ locks <= parallelism

\* one worker has put its token back while another still owns one
C5_Witness ==
  /\ built
  /\ \E c \in Calls, d \in Calls : \E i \in Idx, j \in Idx :
       wk[c][i] = "done" /\ wk[d][j] \in Holding

CallQuiet(c) ==
  /\ supI[c] = nq[c]
  /\ \A i \in Idx : wk[c][i] \in {"none", "done"}

\* C6: after a For call has returned, a state follows in which the supervisor
\* of every returned call has stopped, every worker such a call spawned has
\* released its token, and the pool holds parallelism tokens again.
C6_TokensComeBack ==
  (\E c \in Calls : Returned(c)) ~>
    /\ \A c \in Calls : Returned(c) => CallQuiet(c)
    /\ locks = parallelism

\* For has returned while a worker still runs fn, another waits at its select
\* or the supervisor has indexes left
C6_Witness ==
  \E c \in Calls :
    /\ Returned(c)
    /\ supI[c] < nq[c]
    /\ \E i \in Idx : wk[c][i] \in {"fn", "select"}

\* C7 as claimed: when For has returned, none of its workers is still inside
\* fn, at its select or owning a token.
C7_NoWorkerOutlives ==
  \A c \in Calls : Returned(c) => \A i \in Idx : wk[c][i] \in {"none", "done"}

\* C7 amended: when For has returned, on every exit path, the derived ctx is
\* cancelled; when it returned a result list every worker has published, so
\* none is inside fn or at its select (it may still own its token).
C7_ScopeCancelledOnReturn ==
  \A c \in Calls :
    Returned(c) =>
      /\ ctxDone[c]
      /\ ret[c].err = NoErr =>
           \A i \in IdxOf(c) : wk[c][i] \in {"defer", "done"} /\ pub[c][i] = "sent"

\* For returned its result list while the last worker still owns its token
C7_Witness ==
  \E c \in Calls :
    /\ Succeeded(c) /\ nq[c] >= 1
    /\ \E i \in IdxOf(c) : wk[c][i] = "defer"
    /\ ~callerDone[c]

\* C8 as claimed: once the caller's ctx is cancelled with results outstanding,
\* no further result is delivered and For returns only (nil, Canceled).
C8_CancelDiscardsResults ==
  [][\A c \in Calls :
       (callerDone[c] /\ CollectorAtSelect(c)) =>
         /\ \A i \in Idx : pub'[c][i] = "sent" => pub[c][i] = "sent"
         /\ Returned(c)' => ret'[c] = [list |-> Nil, err |-> Canceled]]_vars

\* C8 amended: when the collector takes its <-ctx.Done() case before it has
\* len(queries) results, For returns (nil, Canceled), and that happens only
\* after the caller cancelled; a worker that takes its <-ctx.Done() case does
\* not deliver its result.
C8_ObservedCancel ==
  \A c \in Calls :
    /\ (Returned(c) /\ ret[c].err = Canceled) =>
         /\ ret[c].list = Nil
         /\ k[c] < nq[c]
         /\ callerDone[c] /\ ctxDone[c]
    /\ \A i \in IdxOf(c) : pub[c][i] = "skipped" => results[c][i] = Zero

\* For returned Canceled after one result was collected, and a worker dropped
\* its result
C8_Witness ==
  \E c \in Calls :
    /\ Returned(c) /\ ret[c].err = Canceled
    /\ k[c] = 1
    /\ \E i \in Idx : pub[c][i] = "skipped" /\ out[c][i] \in Values

\* C9: when a call failed with a worker's error, the ctx that the handler
\* invocations still running were given is cancelled.
C9_HandlersSeeCancel ==
  \A c \in Calls :
    (Returned(c) /\ ret[c].err \in Errs) =>
      \A i \in Idx : wk[c][i] = "fn" => HandlerCtxDone(c)

\* C10: fn is invoked at most once for every index of a call.
C10_AtMostOnce ==
  \A c \in Calls : \A i \in Idx :
    /\ invoked[c][i] <= 1
    /\ invoked[c][i] = 1 <=> wk[c][i] # "none"
    /\ i >= supI[c] => invoked[c][i] = 0

\* after a cancellation the supervisor is through its loop, one index was
\* invoked and another never was
C10_Witness ==
  \E c \in Calls :
    /\ ctxDone[c] /\ supI[c] = nq[c]
    /\ \E i \in IdxOf(c), j \in IdxOf(c) : invoked[c][i] = 1 /\ invoked[c][j] = 0

\* C11: a For call with no queries returns the empty list and a nil error, its
\* supervisor starts no worker and fn is not invoked; as long as every call
\* made had no queries, no token has left the pool.
C11_EmptyInput ==
  /\ \A c \in Calls :
       (Returned(c) /\ nq[c] = 0) =>
         /\ ret[c] = [list |-> <<>>, err |-> NoErr]
         /\ ret[c].list # Nil
         /\ \A i \in Idx : wk[c][i] = "none" /\ invoked[c][i] = 0
  /\ (built /\ \A c \in Calls : nq[c] = 0) => locks = parallelism

\* every call was made with no queries and has returned
C11_Witness ==
  /\ \A c \in Calls : Returned(c) /\ nq[c] = 0 /\ ret[c].list = <<>>
  /\ locks = parallelism /\ parallelism >= 1

\* C12: the instance Downstreamer builds has the tenant's limit as its bound
\* when the tenant resolves and the limit is positive, and the default 128
\* otherwise; the pool starts with exactly that many tokens; Downstreamer can
\* always run.
C12_BoundResolution ==
  /\ ~built => ENABLED Downstreamer
  /\ built =>
       /\ (tenantOK /\ limitX > 0) => parallelism = limitX
       /\ (~tenantOK \/ limitX <= 0) => parallelism = DefaultDownstreamConcurrency
       /\ (\A c \in Calls : callState[c] = "idle") => locks = parallelism

\* a tenant limit below the default became the bound and the pool size
C12_Witness ==
  /\ built /\ tenantOK /\ limitX = 1
  /\ parallelism = 1 /\ locks = 1
  /\ \A c \in Calls : callState[c] = "idle"

\* C16 as claimed: a worker owns a token only while it is inside fn, so the
\* tokens missing from the pool are those of the workers inside fn.
C16_ReleasedBeforePublish ==
  locks + Cardinality(Executing) = parallelism

\* C16 amended: a worker keeps its token when fn returns and while it
\* publishes or skips publishing; it puts the token back in its last step.
C16_ReleasedAfterPublish ==
  [][\A c \in Calls : \A i \in Idx :
       /\ (wk[c][i] = "fn" /\ wk'[c][i] # "fn") =>
            wk'[c][i] = "select" /\ locks' = locks
       /\ (wk[c][i] = "select" /\ wk'[c][i] # "select") =>
            wk'[c][i] = "defer" /\ locks' = locks
       /\ (wk[c][i] = "defer" /\ wk'[c][i] # "defer") =>
            wk'[c][i] = "done" /\ locks' = locks + 1]_vars

\* a worker has skipped publishing and not yet put its token back, while the
\* pool is empty
C16_Witness ==
  \E c \in Calls : \E i \in Idx :
    /\ wk[c][i] = "defer" /\ pub[c][i] = "skipped"
    /\ locks = 0 /\ Cardinality(Executing) = 0

\* C17: whenever a For call is running, a state follows in which no call is
\* running: every call returns.
C17_ForReturns ==
  (\E c \in Calls : callState[c] = "running") ~>
    (\A c \in Calls : callState[c] # "running")

\* more queries than tokens: the worker of index 0 waits to publish with the
\* only token while the supervisor waits for a token for index 1
C17_Witness ==
  \E c \in Calls :
    /\ callState[c] = "running" /\ nq[c] = 2 /\ parallelism = 1
    /\ wk[c][0] = "select" /\ supI[c] = 1 /\ locks = 0
    /\ ~ctxDone[c]

\* C18: an error For returns is ctx.Err() only if the caller cancelled; any
\* other error is the error fn returned for an index whose response the
\* collector received, and no other failed response was received.
C18_ErrorOrigin ==
  \A c \in Calls :
    (Returned(c) /\ ret[c].err # NoErr) =>
      \/ ret[c].err = Canceled /\ callerDone[c]
      \/ \E i \in IdxOf(c) :
           /\ ret[c].err = out[c][i]
           /\ out[c][i] \in Errs
           /\ pub[c][i] = "sent"
           /\ \A j \in IdxOf(c) \ {i} : pub[c][j] = "sent" => out[c][j] \in Values

\* two workers failed, the caller did not cancel; For returned the error of
\* the one whose response was received
C18_Witness ==
  \E c \in Calls :
    /\ Returned(c) /\ ~callerDone[c] /\ nq[c] = 2
    /\ out[c][0] \in Errs /\ out[c][1] \in Errs
    /\ ret[c].err = out[c][1] /\ pub[c][0] # "sent"

\* ===================================================== ResponseToResult
\* Strings are sequences of characters.
SeqsUpTo(S, n) == UNION {[1..m -> S] : m \in 0..n}

ErrorTypes  == {<<>>, <<"t">>}          \* the response's ErrorType
ErrorTexts  == {<<>>, <<"m">>}          \* the response's Error
StatsValues == {"stats0", "stats1"}     \* the response's Statistics
HeaderSets  == {<<>>, <<"h">>}          \* what resp.GetHeaders() gives
TypeNames   == {<<"N">>, <<"X">>}       \* %T of a response of another type
LabelSets   ==
  { <<[Name |-> "a", Value |-> "x"]>>,
    <<[Name |-> "a", Value |-> "y"], [Name |-> "b", Value |-> "z"]>> }
\* the j-th sample of a queryrangebase.SampleStream
SampleAt(j) == [TimestampMs |-> j, Value |-> 10 * j]
SampleSeqs  == {[j \in 1..m |-> SampleAt(j)] : m \in 0..MaxSamples}
SampleStreams == [Labels : LabelSets, Samples : SampleSeqs]
LogStreams  == {"s1", "s2"}             \* entries of LokiResponse.Data.Result
ResultTypes == {"vector", "matrix"}     \* loghttp.ResultTypeVector and another

\* the responses a handler can give
LokiResponses ==
  [variant : {"LokiResponse"}, Error : ErrorTexts, ErrorType : ErrorTypes,
   Statistics : StatsValues, Headers : HeaderSets,
   Result : SeqsUpTo(LogStreams, MaxStreams)]
LokiPromResponses ==
  [variant : {"LokiPromResponse"}, Error : ErrorTexts, ErrorType : ErrorTypes,
   Statistics : StatsValues, Headers : HeaderSets,
   ResultType : ResultTypes, Result : SeqsUpTo(SampleStreams, MaxStreams)]
OtherResponses == [variant : {"other"}, type : TypeNames]
Responses == LokiResponses \cup LokiPromResponses \cup OtherResponses

\* what a call of ResponseToResult comes to
Ok(r)    == [kind |-> "ok", res |-> r]
Err(e)   == [kind |-> "err", err |-> e]
Panic    == [kind |-> "panic"]

\* r.Error != "" judged on the error type instead
HasErrorByType(t, m) == t # <<>>

\* r.Error != "" (lines 215, 232)
HasError(t, m) == m # <<>>

\* fmt.Errorf("%s: %s", r.ErrorType, r.Error) (lines 216, 233)
FormatError(t, m) == t \o <<":", " ">> \o m

\* fmt.Errorf("cannot decode (%T)", resp) (line 249)
CannotDecode(t) ==
  <<"c", "a", "n", "n", "o", "t", " ", "d", "e", "c", "o", "d", "e", " ", "(">>
    \o t \o <<")">>

\* labels.Label(l) for every l of stream.Labels (lines 174-177, 197-200)
ToLabels(ls) == [j \in 1..Len(ls) |-> [Name |-> ls[j].Name, Value |-> ls[j].Value]]

\* promql.Point{T: sample.TimestampMs, V: sample.Value}
ToPoint(sample) == [T |-> sample.TimestampMs, V |-> sample.Value]

\* sampleStreamToMatrix (lines 170-191)
sampleStreamToMatrix(streams) ==
  [j \in 1..Len(streams) |->
     [Metric |-> ToLabels(streams[j].Labels),
      Points |-> [n \in 1..Len(streams[j].Samples) |->
                    ToPoint(streams[j].Samples[n])]]]

\* stream.Samples[0] of a stream without samples: index out of range
VectorPanics(streams) ==
  \E j \in 1..Len(streams) : Len(streams[j].Samples) = 0

\* sampleStreamToVector (lines 193-210), for streams it does not panic on
sampleStreamToVector(streams) ==
  [j \in 1..Len(streams) |->
     [Metric |-> ToLabels(streams[j].Labels),
      Point  |-> ToPoint(streams[j].Samples[1])]]

\* append(streams, stream) for every stream of r.Data.Result (lines 219-223)
CopyStreams(ss) == [j \in 1..Len(ss) |-> ss[j]]

\* ResponseToResult (lines 212-251)
ResponseToResult(r) ==
  CASE r.variant = "LokiResponse" ->
         IF HasError(r.ErrorType, r.Error)
         THEN Err(FormatError(r.ErrorType, r.Error))
         ELSE Ok([Statistics |-> r.Statistics,
                  Data |-> [type |-> "streams", value |-> CopyStreams(r.Result)],
                  Headers |-> r.Headers])
    [] r.variant = "LokiPromResponse" ->
         IF HasError(r.ErrorType, r.Error)
         THEN Err(FormatError(r.ErrorType, r.Error))
         ELSE IF r.ResultType = "vector"
         THEN IF VectorPanics(r.Result)
              THEN Panic
              ELSE Ok([Statistics |-> r.Statistics,
                       Data |-> [type |-> "vector",
                                 value |-> sampleStreamToVector(r.Result)],
                       Headers |-> r.Headers])
         ELSE Ok([Statistics |-> r.Statistics,
                  Data |-> [type |-> "matrix",
                            value |-> sampleStreamToMatrix(r.Result)],
                  Headers |-> r.Headers])
    [] OTHER -> Err(CannotDecode(r.type))

\* any response is about to be translated; the dispatcher is left unbuilt
InitResp ==
  /\ InitInstance
  /\ tenantOK = FALSE /\ limitX = 0
  /\ resp \in Responses /\ result = Pending
  /\ params = NoCall /\ shards = <<>> /\ req = NoCall

\* the call of ResponseToResult on resp
TranslateResponse ==
  /\ result = Pending
  /\ result' = ResponseToResult(resp)
  /\ UNCHANGED <<instVars, callVars, wkVars, resp, params, shards, req>>

NextResp == TranslateResponse

RespSpec == InitResp /\ [][NextResp]_vars

\* ---------------------------------------------- claims on ResponseToResult
\* the call of ResponseToResult on resp is over
Translated == result.kind \in {"ok", "err", "panic"}

\* the response is a *LokiResponse or a *LokiPromResponse
CarriesError == resp.variant \in {"LokiResponse", "LokiPromResponse"}

\* the labels ms are the labels ls, name by name and value by value
SameLabels(ms, ls) ==
  /\ Len(ms) = Len(ls)
  /\ \A n \in 1..Len(ls) : ms[n].Name = ls[n].Name /\ ms[n].Value = ls[n].Value

\* the point pt is the sample sm
SamePoint(pt, sm) == pt.T = sm.TimestampMs /\ pt.V = sm.Value

\* C13: a log-stream or sample-stream response whose error message is not
\* empty is never turned into a Result: the outcome is an error whose text is
\* the error type, a colon, a space and the error message, whatever else the
\* response carries.
C13_ErrorPassthrough ==
  (Translated /\ CarriesError /\ resp.Error # <<>>) =>
    /\ result.kind = "err"
    /\ Len(result.err) = Len(resp.ErrorType) + 2 + Len(resp.Error)
    /\ SubSeq(result.err, 1, Len(resp.ErrorType)) = resp.ErrorType
    /\ result.err[Len(resp.ErrorType) + 1] = ":"
    /\ result.err[Len(resp.ErrorType) + 2] = " "
    /\ SubSeq(result.err, Len(resp.ErrorType) + 3, Len(result.err)) = resp.Error

\* a vector-shaped response with a sample-less stream, an error message and no
\* error type has been translated into the error ": m"
C13_Witness ==
  /\ Translated
  /\ resp.variant = "LokiPromResponse"
  /\ resp.ResultType = "vector"
  /\ resp.Error = <<"m">> /\ resp.ErrorType = <<>>
  /\ resp.Statistics = "stats1"
  /\ \E j \in 1..Len(resp.Result) : Len(resp.Result[j].Samples) = 0
  /\ result = [kind |-> "err", err |-> <<":", " ", "m">>]

\* C19: ResponseToResult returns a Result or an error for every response and
\* never aborts, a stream with zero samples included; for a response of an
\* unrecognized type the outcome is an error whose text names that type.
C19_Total ==
  Translated =>
    /\ result.kind \in {"ok", "err"}
    /\ resp.variant = "other" =>
         /\ result.kind = "err"
         /\ \E n \in 1..Len(result.err) :
              SubSeq(result.err, n, n + Len(resp.type) - 1) = resp.type

\* C15: an error-free sample-stream response with k streams becomes, when its
\* shape is vector, k entries where entry j has stream j's labels and stream
\* j's first sample as its point, and otherwise k series where series j has
\* stream j's labels and all of stream j's samples in their order.
C15_SampleStreamShapes ==
  (Translated /\ resp.variant = "LokiPromResponse" /\ resp.Error = <<>>) =>
    /\ result.kind = "ok"
    /\ Len(result.res.Data.value) = Len(resp.Result)
    /\ IF resp.ResultType = "vector"
       THEN /\ result.res.Data.type = "vector"
            /\ \A j \in 1..Len(resp.Result) :
                 /\ SameLabels(result.res.Data.value[j].Metric, resp.Result[j].Labels)
                 /\ SamePoint(result.res.Data.value[j].Point, resp.Result[j].Samples[1])
       ELSE /\ result.res.Data.type = "matrix"
            /\ \A j \in 1..Len(resp.Result) :
                 /\ SameLabels(result.res.Data.value[j].Metric, resp.Result[j].Labels)
                 /\ Len(result.res.Data.value[j].Points) = Len(resp.Result[j].Samples)
                 /\ \A n \in 1..Len(resp.Result[j].Samples) :
                      SamePoint(result.res.Data.value[j].Points[n],
                                resp.Result[j].Samples[n])

\* ==================================================== ParamsToLokiRequest
NsPerMs == 1000000                        \* nanoseconds of a time.Duration per millisecond

InstantType == "instant"                  \* logql.InstantType
RangeType   == "range"                    \* the other logql.QueryRangeType

Times      == 0..MaxTime                  \* params.Start(), params.End()
Durations  == {h * (NsPerMs \div 2) : h \in 0..MaxHalfMs}   \* Step(), Interval()
Directions == {"FORWARD", "BACKWARD"}     \* params.Direction()
QueryLimits == {0, 100}                   \* params.Limit()
Queries    == {"q"}                       \* params.Query()

\* the logql.Params a caller can pass: an instant query has one timestamp
AllParams ==
  { pr \in [rangeType : {InstantType, RangeType}, Query : Queries,
            Limit : QueryLimits, Start : Times, End : Times,
            Step : Durations, Interval : Durations, Direction : Directions] :
      /\ pr.Start <= pr.End
      /\ pr.rangeType = InstantType =>
           pr.End = pr.Start /\ pr.Step = 0 /\ pr.Interval = 0 }

\* the shard descriptors and the logql.Shards made of them
ShardDescs == {[Shard |-> 0, Of |-> 2], [Shard |-> 1, Of |-> 2]}
AllShards  == SeqsUpTo(ShardDescs, MaxShards)

\* logql.GetRangeType(params)
GetRangeType(pr) == pr.rangeType

\* the token of one shard descriptor
EncodeShard(d) == <<d.Shard, "_of_", d.Of>>

\* shards.Encode(): one token per shard, in the order of the set
Encode(sh) == [j \in 1..Len(sh) |-> EncodeShard(sh[j])]

\* time.Duration.Milliseconds() of a non-negative duration
Milliseconds(d) == d \div NsPerMs

\* &LokiInstantRequest{...} (lines 33-40)
LokiInstantRequest(pr, sh) ==
  [variant   |-> "LokiInstantRequest",
   Query     |-> pr.Query,
   Limit     |-> pr.Limit,
   TimeTs    |-> pr.Start,
   Direction |-> pr.Direction,
   Path      |-> "/loki/api/v1/query",
   Shards    |-> Encode(sh)]

\* &LokiRequest{...} with step and interval in each other's place
LokiRequestSwapped(pr, sh) ==
  [variant   |-> "LokiRequest",
   Query     |-> pr.Query,
   Limit     |-> pr.Limit,
   Step      |-> Milliseconds(pr.Interval),
   Interval  |-> Milliseconds(pr.Step),
   StartTs   |-> pr.Start,
   EndTs     |-> pr.End,
   Direction |-> pr.Direction,
   Path      |-> "/loki/api/v1/query_range",
   Shards    |-> Encode(sh)]

\* &LokiRequest{...} (lines 42-52)
LokiRequest(pr, sh) ==
  [variant   |-> "LokiRequest",
   Query     |-> pr.Query,
   Limit     |-> pr.Limit,
   Step      |-> Milliseconds(pr.Step),
   Interval  |-> Milliseconds(pr.Interval),
   StartTs   |-> pr.Start,
   EndTs     |-> pr.End,
   Direction |-> pr.Direction,
   Path      |-> "/loki/api/v1/query_range",
   Shards    |-> Encode(sh)]

\* ParamsToLokiRequest (lines 31-53)
ParamsToLokiRequest(pr, sh) ==
  IF GetRangeType(pr) = InstantType
  THEN LokiInstantRequest(pr, sh)
  ELSE LokiRequest(pr, sh)

\* any parameters and shards are about to be translated; the dispatcher is
\* left unbuilt
InitReq ==
  /\ InitInstance
  /\ tenantOK = FALSE /\ limitX = 0
  /\ resp = NoCall /\ result = NoCall
  /\ params \in AllParams /\ shards \in AllShards /\ req = Pending

\* the call of ParamsToLokiRequest on params and shards
TranslateParams ==
  /\ req = Pending
  /\ req' = ParamsToLokiRequest(params, shards)
  /\ UNCHANGED <<instVars, callVars, wkVars, resp, result, params, shards>>

NextReq == TranslateParams

ReqSpec == InitReq /\ [][NextReq]_vars

\* -------------------------------------------- claims on ParamsToLokiRequest
\* the call of ParamsToLokiRequest on params and shards is over
RequestBuilt == req # NoCall /\ req # Pending

\* ms is the whole number of milliseconds in the duration d
WholeMsOf(ms, d) == ms * NsPerMs <= d /\ d < (ms + 1) * NsPerMs

\* C14: the request variant follows only from the parameters being instant or
\* range.  A range request gives back start, end, step in milliseconds,
\* interval in milliseconds, direction, limit and the encoding of the shards;
\* an instant request carries the single timestamp and no range.
C14_RoundTrip ==
  RequestBuilt =>
    /\ req.Direction = params.Direction
    /\ req.Limit = params.Limit
    /\ Len(req.Shards) = Len(shards)
    /\ \A j \in 1..Len(shards) :
         req.Shards[j] = <<shards[j].Shard, "_of_", shards[j].Of>>
    /\ IF params.rangeType = "range"
       THEN /\ req.variant = "LokiRequest"
            /\ req.StartTs = params.Start
            /\ req.EndTs = params.End
            /\ WholeMsOf(req.Step, params.Step)
            /\ WholeMsOf(req.Interval, params.Interval)
       ELSE /\ req.variant = "LokiInstantRequest"
            /\ req.TimeTs = params.Start
            /\ DOMAIN req \cap {"StartTs", "EndTs", "Step", "Interval"} = {}

\* range parameters from 0 to 1 with a step of 1.5 ms and an interval of
\* 0.5 ms and one shard became a range request with step 1 and interval 0
C14_Witness ==
  /\ RequestBuilt
  /\ params.rangeType = "range"
  /\ params.Start = 0 /\ params.End = 1
  /\ params.Step = 1500000 /\ params.Interval = 500000
  /\ Len(shards) = 1
  /\ req.variant = "LokiRequest"
  /\ req.Step = 1 /\ req.Interval = 0
  /\ req.StartTs = 0 /\ req.EndTs = 1
  /\ req.Shards = <<<<shards[1].Shard, "_of_", 2>>>>


====
